---- MODULE Spec2Model ----
(***************************************************************************)
(* Model of src/utils.py of air_traffic_forecast: the sliding-window       *)
(* splitter _split_sequence, the train/validation splitter train_val_split *)
(* and the index/offset arithmetic of plot_validation.                     *)
(*                                                                         *)
(* A run loads one series (data), then either windows it directly with     *)
(* _split_sequence, or splits it with train_val_split and afterwards plots *)
(* one validation sample with plot_validation.  Python sequences are       *)
(* 0-based; TLA+ sequences are 1-based, so element p of a Python sequence  *)
(* is element p+1 of its model.                                            *)
(***************************************************************************)
EXTENDS Integers, Sequences, FiniteSets

(* ------------------------------ bounds -------------------------------- *)
MaxLen == 5          \* longest series drawn
MaxVal == 2          \* series values are drawn from 1..MaxVal
MaxRamp == 10        \* longest series 1, 2, ..., n drawn
MaxSteps == 3        \* n_input, n_output are drawn from 1..MaxSteps
MaxValSamples == 6   \* val_samples is drawn from -MaxValSamples..MaxValSamples
MaxIndex == 3        \* the plotted sample index is drawn from -MaxIndex..MaxIndex
MaxForecast == 3     \* length of one forecast row returned by model.predict

\* the example of the docstring of _split_sequence
DocExample == <<1, 2, 3, 4, 5>>

SeqsUpTo(S, n) == UNION {[1..m -> S] : m \in 0..n}

\* the series 1, 2, ..., n (the docstring example is Ramp(5))
Ramp(n) == [j \in 1..n |-> j]

\* every short series over a small alphabet, and longer strictly
\* increasing ones
Series ==
  SeqsUpTo(1..MaxVal, MaxLen) \cup {Ramp(n) : n \in 0..MaxRamp}
    \cup {DocExample}

Steps == 1..MaxSteps

ValSamples == (0 - MaxValSamples)..MaxValSamples

SampleIndexes == (0 - MaxIndex)..MaxIndex

ForecastLens == 1..MaxForecast

(* ------------------------ Python sequence access ---------------------- *)
\* a slice bound as Python normalises it against a sequence of length n:
\* a negative bound counts from the end, and bounds are clamped to 0..n
NormIndex(x, n) ==
  IF x < 0 THEN (IF x + n < 0 THEN 0 ELSE x + n)
  ELSE (IF x > n THEN n ELSE x)

\* s[lo:hi]
PySlice(s, lo, hi) ==
  LET a == NormIndex(lo, Len(s))
      b == NormIndex(hi, Len(s))
  IN IF b <= a THEN << >> ELSE SubSeq(s, a + 1, b)

\* s[x] is an IndexError unless -len(s) <= x < len(s)
InRange(x, n) == (0 - n) <= x /\ x < n

\* s[x] for an x in range
PyIndex(s, x) == IF x < 0 THEN s[x + Len(s) + 1] ELSE s[x + 1]

(* --------------------------- _split_sequence -------------------------- *)
\* the size guard: if len(sequence) < n_input + n_output
TooShort_le(sequence, n_in, n_out) == Len(sequence) <= n_in + n_out

TooShort(sequence, n_in, n_out) == Len(sequence) < n_in + n_out

\* input_end = i + n_input
InputEnd(k, n_in) == k + n_in

\* output_end = input_end + n_output - 1
OutputEnd_nooverlap(input_end, n_out) == input_end + n_out

OutputEnd(input_end, n_out) == input_end + n_out - 1

\* if output_end > len(sequence): break
LoopBreak_ge(output_end, sequence) == output_end >= Len(sequence)

LoopBreak(output_end, sequence) == output_end > Len(sequence)

\* seq_x = sequence[i:input_end]
SeqX_shift(sequence, k, input_end) == PySlice(sequence, k + 1, input_end + 1)

SeqX(sequence, k, input_end) == PySlice(sequence, k, input_end)

\* seq_y = sequence[input_end - 1 : output_end]
SeqY_next(sequence, input_end, output_end) ==
  PySlice(sequence, input_end, output_end + 1)

SeqY(sequence, input_end, output_end) ==
  PySlice(sequence, input_end - 1, output_end)

\* the loop `for i, _ in enumerate(sequence)` from index k on, with the
\* lists collected so far
RECURSIVE SplitLoop(_, _, _, _, _, _)
SplitLoop(sequence, n_in, n_out, k, ins, outs) ==
  IF k >= Len(sequence)
  THEN [inputs |-> ins, outputs |-> outs]
  ELSE LET input_end == InputEnd(k, n_in)
           output_end == OutputEnd(input_end, n_out)
       IN IF LoopBreak(output_end, sequence)
          THEN [inputs |-> ins, outputs |-> outs]
          ELSE SplitLoop(sequence, n_in, n_out, k + 1,
                         Append(ins, SeqX(sequence, k, input_end)),
                         Append(outs, SeqY(sequence, input_end, output_end)))

\* _split_sequence(sequence, n_input, n_output): sys.exit() raises
\* SystemExit, which `except ValueError` does not catch, so the guard ends
\* the run; otherwise the two lists are returned
split_sequence(sequence, n_in, n_out) ==
  IF TooShort(sequence, n_in, n_out)
  THEN [exit |-> TRUE, inputs |-> << >>, outputs |-> << >>]
  ELSE LET r == SplitLoop(sequence, n_in, n_out, 0, << >>, << >>)
       IN [exit |-> FALSE, inputs |-> r.inputs, outputs |-> r.outputs]

(* --------------------------- train_val_split -------------------------- *)
\* n_samples = val_samples - 1
\* split_idx = len(data) - (n_steps_in + n_steps_out - 1) - n_samples
SplitIdx(d, n_in, n_out, vs) ==
  LET n_samples == vs - 1
  IN Len(d) - (n_in + n_out - 1) - n_samples

\* data_train = data[:split_idx]
DataTrain(d, idx) == PySlice(d, 0, idx)

\* data_valid = data[split_idx:]
DataValid_clamped(d, idx) == PySlice(d, IF idx < 0 THEN 0 ELSE idx, Len(d))

DataValid(d, idx) == PySlice(d, idx, Len(d))

(* --------------------------- plot_validation -------------------------- *)
\* if i > len(y_test): raise IndexError
IndexGuard(x, y_test) == x > Len(y_test)

\* np.arange(x_pred_len, x_pred_len + len(x_pred)) - 1
ForecastDates_after(xlen, n) == [j \in 1..n |-> xlen + j - 1]

ForecastDates(xlen, n) == [j \in 1..n |-> (xlen + j - 1) - 1]

\* range(x_pred_len)
InputDates(xlen) == [j \in 1..xlen |-> j - 1]

(* -------------------------------- state ------------------------------- *)
VARIABLES
  pc,            \* "loaded", or the function that has run last
  data,          \* the series
  n_input, n_output, val_samples,   \* arguments of the call
  outcome,       \* "none", "returned", "SystemExit", "IndexError", "ValueError"
  exit_call,     \* which _split_sequence call ended the run
  inputs, outputs,                  \* result of a direct _split_sequence
  split_idx, data_train, data_valid,
  x_train_set, y_train_set, x_valid_set, y_valid_set,
  i,             \* plot_validation: sample index
  x_pred_len,    \* plot_validation: len(val_set[i])
  n_pred,        \* plot_validation: len(x_pred)
  model_output,  \* index ("date") of the predicted trace
  model_input,   \* the input trace
  expected       \* the expected trace

splitVars == <<inputs, outputs>>
tvsVars == <<split_idx, data_train, data_valid,
             x_train_set, y_train_set, x_valid_set, y_valid_set>>
plotVars == <<i, x_pred_len, n_pred, model_output, model_input, expected>>
vars == <<pc, data, n_input, n_output, val_samples, outcome, exit_call,
          splitVars, tvsVars, plotVars>>

NoTrace == [date |-> << >>, input |-> << >>]

Init ==
  /\ pc = "loaded"
  /\ data \in Series
  /\ n_input = 0 /\ n_output = 0 /\ val_samples = 0
  /\ outcome = "none"
  /\ exit_call = "none"
  /\ inputs = << >> /\ outputs = << >>
  /\ split_idx = 0 /\ data_train = << >> /\ data_valid = << >>
  /\ x_train_set = << >> /\ y_train_set = << >>
  /\ x_valid_set = << >> /\ y_valid_set = << >>
  /\ i = 0 /\ x_pred_len = 0 /\ n_pred = 0
  /\ model_output = << >> /\ model_input = NoTrace /\ expected = NoTrace

\* a direct call _split_sequence(data, n_in, n_out)
SplitSequence ==
  /\ pc = "loaded"
  /\ \E n_in \in Steps, n_out \in Steps :
       LET r == split_sequence(data, n_in, n_out)
       IN /\ n_input' = n_in
          /\ n_output' = n_out
          /\ outcome' = IF r.exit THEN "SystemExit" ELSE "returned"
          /\ exit_call' = IF r.exit THEN "direct" ELSE "none"
          /\ inputs' = r.inputs
          /\ outputs' = r.outputs
  /\ pc' = "split_sequence"
  /\ UNCHANGED <<data, val_samples, tvsVars, plotVars>>

\* train_val_split(data, n_in, n_out, vs)
TrainValSplit ==
  /\ pc = "loaded"
  /\ \E n_in \in Steps, n_out \in Steps, vs \in ValSamples :
       LET idx == SplitIdx(data, n_in, n_out, vs)
           tr == DataTrain(data, idx)
           va == DataValid(data, idx)
           rt == split_sequence(tr, n_in, n_out)
           rv == split_sequence(va, n_in, n_out)
       IN /\ n_input' = n_in
          /\ n_output' = n_out
          /\ val_samples' = vs
          /\ split_idx' = idx
          /\ data_train' = tr
          /\ data_valid' = va
          /\ IF rt.exit
             THEN /\ outcome' = "SystemExit"
                  /\ exit_call' = "train"
                  /\ x_train_set' = << >> /\ y_train_set' = << >>
                  /\ x_valid_set' = << >> /\ y_valid_set' = << >>
             ELSE IF rv.exit
             THEN /\ outcome' = "SystemExit"
                  /\ exit_call' = "valid"
                  /\ x_train_set' = rt.inputs /\ y_train_set' = rt.outputs
                  /\ x_valid_set' = << >> /\ y_valid_set' = << >>
             ELSE /\ outcome' = "returned"
                  /\ exit_call' = "none"
                  /\ x_train_set' = rt.inputs /\ y_train_set' = rt.outputs
                  /\ x_valid_set' = rv.inputs /\ y_valid_set' = rv.outputs
  /\ pc' = "train_val_split"
  /\ UNCHANGED <<data, splitVars, plotVars>>

\* plot_validation(model, x_valid_set, y_valid_set, x): model.predict
\* returns one forecast row per validation window, each of n values
PlotValidation ==
  /\ pc = "train_val_split"
  /\ outcome = "returned"
  /\ \E x \in SampleIndexes, n \in ForecastLens :
       LET val_set == x_valid_set
           y_test == y_valid_set
           n_forecasts == Len(val_set)
       IN /\ i' = x
          /\ IF IndexGuard(x, y_test) \/ ~InRange(x, n_forecasts)
             THEN \* line 88, or forecasts[i] / val_set[i] out of bounds
                  /\ outcome' = "IndexError"
                  /\ UNCHANGED <<x_pred_len, n_pred, model_output,
                                 model_input, expected>>
             ELSE LET xlen == Len(PyIndex(val_set, x))
                  IN /\ x_pred_len' = xlen
                     /\ n_pred' = n
                     /\ model_output' = ForecastDates(xlen, n)
                     /\ model_input' = [date |-> InputDates(xlen),
                                        input |-> PyIndex(val_set, x)]
                     /\ IF ~InRange(x, Len(y_test))
                        THEN /\ outcome' = "IndexError"
                             /\ expected' = expected
                        ELSE IF Len(PyIndex(y_test, x)) # n
                        THEN \* DataFrame columns of unequal length
                             /\ outcome' = "ValueError"
                             /\ expected' = expected
                        ELSE /\ outcome' = "returned"
                             /\ expected' = [date |-> ForecastDates(xlen, n),
                                             input |-> PyIndex(y_test, x)]
  /\ pc' = "plot_validation"
  /\ UNCHANGED <<data, n_input, n_output, val_samples, exit_call,
                 splitVars, tvsVars>>

Next == SplitSequence \/ TrainValSplit \/ PlotValidation

Spec == Init /\ [][Next]_vars

(* ------------------------------- claims ------------------------------- *)

\* C1 (as stated): a sequence with len(s) == n_input + n_output gives
\* exactly one window (one input row and one output row).
C1_OneWindowAtBoundary ==
  (pc = "split_sequence" /\ Len(data) = n_input + n_output)
    => (outcome = "returned" /\ Len(inputs) = 1 /\ Len(outputs) = 1)

\* C1 (amended): a sequence with len(s) == n_input + n_output gives exactly
\* two windows, because the output window starts on the last input element.
C1_TwoWindowsAtBoundary ==
  (pc = "split_sequence" /\ Len(data) = n_input + n_output)
    => (outcome = "returned" /\ Len(inputs) = 2 /\ Len(outputs) = 2)

C1_Witness ==
  /\ pc = "split_sequence"
  /\ Len(data) = n_input + n_output
  /\ outcome = "returned"
  /\ Len(inputs) = 2

\* C2: whenever val_samples >= 1 and the series is long enough for the
\* training partition (split_idx >= n_input + n_output), train_val_split
\* returns validation arrays with exactly val_samples rows each.
C2_ValSamplesWindows ==
  (pc = "train_val_split" /\ val_samples >= 1
     /\ split_idx >= n_input + n_output)
    => (outcome = "returned"
        /\ Len(x_valid_set) = val_samples
        /\ Len(y_valid_set) = val_samples)

\* C3: when the computed split index is zero or negative, train_val_split
\* never returns four arrays (so never a validation set with fewer than
\* val_samples windows): the too-short check ends the run.
C3_NoReturnWhenOversized ==
  (pc = "train_val_split" /\ split_idx <= 0) => outcome = "SystemExit"

\* C4: plot_validation raises IndexError for every sample index outside
\* 0 <= i < len(y_test), negative ones included, and returns a chart for
\* every index inside it (given a forecast as long as the expected window).
C4_IndexRangeChecked ==
  pc = "plot_validation"
    => /\ ~(0 <= i /\ i < Len(y_valid_set)) => outcome = "IndexError"
       /\ (0 <= i /\ i < Len(y_valid_set) /\ n_pred = n_output)
            => outcome = "returned"

\* C5: _split_sequence exits the run exactly when
\* len(s) < n_input + n_output, and then returns no arrays; for longer
\* sequences it returns and never exits.
C5_ExitIffTooShort ==
  pc = "split_sequence"
    => /\ Len(data) < n_input + n_output
            => (outcome = "SystemExit" /\ exit_call = "direct"
                /\ inputs = << >> /\ outputs = << >>)
       /\ Len(data) >= n_input + n_output
            => (outcome = "returned" /\ exit_call = "none")

C5_Witness ==
  /\ pc = "split_sequence"
  /\ Len(data) > 0
  /\ Len(data) < n_input + n_output
  /\ outcome = "SystemExit"

\* C6: the k-th window (k from 0) is input = s[k : k+n_input] of length
\* n_input and output = s[k+n_input-1 : k+n_input+n_output-1] of length
\* n_output, both inside s; the docstring example [1,2,3,4,5], 3, 2 gives
\* [[1,2,3],[2,3,4]] and [[3,4],[4,5]].
C6_WindowContents ==
  (pc = "split_sequence" /\ outcome = "returned")
    => /\ Len(inputs) = Len(outputs)
       /\ \A k \in 0..(Len(inputs) - 1) :
            /\ k + n_input <= Len(data)
            /\ k + n_input + n_output - 1 <= Len(data)
            /\ Len(inputs[k + 1]) = n_input
            /\ Len(outputs[k + 1]) = n_output
            /\ inputs[k + 1] = [j \in 1..n_input |-> data[k + j]]
            /\ outputs[k + 1] = [j \in 1..n_output |-> data[k + n_input - 1 + j]]
       /\ (data = DocExample /\ n_input = 3 /\ n_output = 2)
            => /\ inputs = << <<1, 2, 3>>, <<2, 3, 4>> >>
               /\ outputs = << <<3, 4>>, <<4, 5>> >>

C6_Witness ==
  /\ pc = "split_sequence"
  /\ data = DocExample /\ n_input = 3 /\ n_output = 2
  /\ inputs = << <<1, 2, 3>>, <<2, 3, 4>> >>
  /\ outputs = << <<3, 4>>, <<4, 5>> >>

\* C7: _split_sequence returns as many inputs as outputs, and in every pair
\* the last input element equals the first output element.
C7_OverlapAnchor ==
  (pc = "split_sequence" /\ outcome = "returned")
    => /\ Len(inputs) = Len(outputs)
       /\ \A k \in 1..Len(inputs) :
            /\ Len(inputs[k]) > 0
            /\ Len(outputs[k]) > 0
            /\ inputs[k][Len(inputs[k])] = outputs[k][1]

C7_Witness ==
  /\ pc = "split_sequence"
  /\ outcome = "returned"
  /\ Len(inputs) >= 3
  /\ inputs[1] # inputs[2]
  /\ inputs[1][Len(inputs[1])] = outputs[1][1]

\* C8: for every val_samples (split index zero, negative or beyond the end
\* included) the train and validation partitions are disjoint and
\* order-preserving, validation is a suffix, and their lengths add up to
\* the length of the series.
C8_PartitionsComplementary ==
  pc = "train_val_split"
    => /\ Len(data_train) + Len(data_valid) = Len(data)
       /\ data_train = SubSeq(data, 1, Len(data_train))
       /\ data_valid = SubSeq(data, Len(data) - Len(data_valid) + 1, Len(data))
       /\ (1..Len(data_train))
            \cap ((Len(data) - Len(data_valid) + 1)..Len(data)) = {}
       /\ data_train \o data_valid = data

C8_Witness ==
  /\ pc = "train_val_split"
  /\ split_idx < 0
  /\ data_train # << >>
  /\ data_valid # << >>
  /\ Len(data_train) + Len(data_valid) = Len(data)

\* C9 (as stated): the forecast and expected traces are plotted at offsets
\* len(input) .. len(input)+len(forecast)-1, the input trace at
\* 0 .. len(input)-1, and the two offset ranges do not overlap.
C9_ForecastAfterInput ==
  (pc = "plot_validation" /\ outcome = "returned")
    => /\ model_output = [j \in 1..n_pred |-> x_pred_len + j - 1]
       /\ expected.date = [j \in 1..n_pred |-> x_pred_len + j - 1]
       /\ model_input.date = [j \in 1..x_pred_len |-> j - 1]
       /\ {model_output[j] : j \in DOMAIN model_output}
            \cap {model_input.date[j] : j \in DOMAIN model_input.date} = {}

\* C9 (amended): the forecast and expected traces are plotted at offsets
\* len(input)-1 .. len(input)+len(forecast)-2, so they start on the last
\* input offset; the input trace is at 0 .. len(input)-1 and the ranges
\* share exactly the offset len(input)-1.
C9_ForecastFromLastInput ==
  (pc = "plot_validation" /\ outcome = "returned")
    => /\ x_pred_len = n_input
       /\ model_output = [j \in 1..n_pred |-> x_pred_len + j - 2]
       /\ expected.date = [j \in 1..n_pred |-> x_pred_len + j - 2]
       /\ model_input.date = [j \in 1..x_pred_len |-> j - 1]
       /\ {model_output[j] : j \in DOMAIN model_output}
            \cap {model_input.date[j] : j \in DOMAIN model_input.date}
          = {x_pred_len - 1}

C9_Witness ==
  /\ pc = "plot_validation"
  /\ outcome = "returned"
  /\ n_pred >= 2
  /\ x_pred_len >= 2
  /\ model_output[1] = x_pred_len - 1

\* C10: for len(s) >= n_input + n_output, _split_sequence emits exactly
\* len(s) - n_input - n_output + 2 windows, one per start index i with
\* i + n_input + n_output - 1 <= len(s); a sequence of length
\* n_input + n_output - 1 is rejected although the window at i = 0 fits.
C10_WindowCount ==
  pc = "split_sequence"
    => /\ Len(data) >= n_input + n_output
            => /\ outcome = "returned"
               /\ Len(inputs) = Len(data) - n_input - n_output + 2
               /\ Len(outputs) = Len(data) - n_input - n_output + 2
               /\ Len(inputs) = Cardinality(
                    {k \in 0..(Len(data) - 1) :
                       k + n_input + n_output - 1 <= Len(data)})
       /\ Len(data) = n_input + n_output - 1
            => /\ outcome = "SystemExit"
               /\ 0 + n_input + n_output - 1 <= Len(data)

C10_Witness ==
  /\ pc = "split_sequence"
  /\ Len(data) > n_input + n_output
  /\ outcome = "returned"
  /\ Len(inputs) = Len(data) - n_input - n_output + 2
  /\ Len(inputs) >= 3

====
